---- MODULE Spec2Model ----
(***************************************************************************)
(* Order-management backend (src/app.py): customers, customer accounts,    *)
(* products with stock, and orders made of line items.  Every request      *)
(* handler runs inside one `with Session(...) as session, session.begin()` *)
(* unit of work; the handlers are the actions of this module.              *)
(***************************************************************************)
EXTENDS Integers, Sequences, FiniteSets, TLC

\* ------------------------------------------------------------------ bounds
MaxCustomers == 2
MaxProducts == 2
MaxOrders == 2
MaxStock == 2
MaxRefs == 2
MaxTxns == 2

Usernames == {"ann", "bob"}

\* --------------------------------------------------------------- constants
\* HTTP status of each return statement of the handlers.
Ok == 200
Created == 201
BadRequest == 400
NotFound == 404
\* An exception that leaves the handler (Flask answers 500).
ServerError == 500
\* Value of an integer field that the request does not carry.
Absent == 0

VARIABLES
    customers,       \* set of customer_id of the rows of Customers
    nextCustomerId,  \* autoincrement counter of Customers
    accounts,        \* set of [customer_id, username], the rows of Customer_Accounts
    products,        \* product_id -> [stock], the rows of Products
    nextProductId,   \* autoincrement counter of Products
    orders,          \* order_id -> [customer_id], the rows of Orders
    order_products,  \* set of [order_id, product_id, quantity], the rows of Order_Product
    nextOrderId,     \* autoincrement counter of Orders
    supplied,        \* product_id -> units ever put in stock: at creation, by restock, by edit
    last,            \* the last request and its response
    txn              \* the interleaved add_order units of work (SpecConc)

vars == <<customers, nextCustomerId, accounts, products, nextProductId,
          orders, order_products, nextOrderId, supplied, last, txn>>

\* ----------------------------------------------------------------- helpers
EmptyMap == [x \in {} |-> 0]

Range(s) == {s[i] : i \in DOMAIN s}

SeqsUpTo(S, n) == UNION {[1..k -> S] : k \in 0..n}

\* All orders in which a loop can visit the elements of the set S.
Orderings(S) == {s \in [1..Cardinality(S) -> S] : Range(s) = S}

RECURSIVE SumQuantity(_)
SumQuantity(rows) ==
    IF rows = {} THEN 0
    ELSE LET r == CHOOSE x \in rows : TRUE
         IN r.quantity + SumQuantity(rows \ {r})

\* The line items of product p over all existing orders.
LineItems(p) == {r \in order_products : r.product_id = p}

\* order.products: the line items of order o.
ItemsOf(o) == {r \in order_products : r.order_id = o}

Allocated(p) == SumQuantity(LineItems(p))

\* quantities = Counter(product_ids): one pass over the list, adding 1 to
\* the entry of each element (a missing entry counts as 0).
CounterNoSum(product_ids) ==
    [p \in Range(product_ids) |-> 1]

RECURSIVE Counter(_)
Counter(product_ids) ==
    IF product_ids = <<>> THEN EmptyMap
    ELSE LET n == Len(product_ids)
             rest == Counter(SubSeq(product_ids, 1, n - 1))
             elem == product_ids[n]
         IN [p \in DOMAIN rest \cup {elem} |->
                (IF p \in DOMAIN rest THEN rest[p] ELSE 0) + (IF p = elem THEN 1 ELSE 0)]

\* The response of a handler: the handler, the HTTP status and the error, and
\* whether the request body carried product_ids.
Reply(op, status, error, has_product_ids) ==
    [op |-> op, status |-> status, error |-> error, has_product_ids |-> has_product_ids]

Response(op, status, error) == Reply(op, status, error, FALSE)

Init ==
    /\ customers = {}
    /\ nextCustomerId = 1
    /\ accounts = {}
    /\ products = EmptyMap
    /\ nextProductId = 1
    /\ orders = EmptyMap
    /\ order_products = {}
    /\ nextOrderId = 1
    /\ supplied = EmptyMap
    /\ last = Response("none", Ok, "")
    /\ txn = [t \in 1..MaxTxns |-> [pc |-> "idle"]]

\* ------------------------------------------------------------- /customers
OrdersOf(customer_id) == {o \in DOMAIN orders : orders[o].customer_id = customer_id}

\* session.get(CustomerAccount, customer_id): the rows with that primary key.
AccountOf(customer_id) == {a \in accounts : a.customer_id = customer_id}

add_customer ==
    /\ nextCustomerId <= MaxCustomers
    /\ customers' = customers \cup {nextCustomerId}
    /\ nextCustomerId' = nextCustomerId + 1
    /\ last' = Response("add_customer", Created, "")
    /\ UNCHANGED <<accounts, products, nextProductId, orders, order_products, nextOrderId, supplied, txn>>

\* session.delete(customer): the flush blanks the foreign key of the rows that
\* refer to the customer.  Customer_Accounts.customer_id is the primary key and
\* Orders.customer_id is NOT NULL, so with an account or an order the flush
\* raises, the unit of work rolls back and the request ends in an exception.
delete_customer(customer_id) ==
    /\ IF customer_id \notin customers
       THEN /\ last' = Response("delete_customer", NotFound, "CustomerNotFound")
            /\ UNCHANGED customers
       ELSE IF AccountOf(customer_id) # {} \/ OrdersOf(customer_id) # {}
       THEN /\ last' = Response("delete_customer", ServerError, "Exception")
            /\ UNCHANGED customers
       ELSE /\ last' = Response("delete_customer", Ok, "")
            /\ customers' = customers \ {customer_id}
    /\ UNCHANGED <<nextCustomerId, accounts, products, nextProductId, orders, order_products,
                   nextOrderId, supplied, txn>>

\* ----------------------------------------------------- /customer_accounts
\* The three checks of add_customer_account, in the order of the code, and
\* the accounts after the unit of work.
AccountCheckNoUsernameCheck(customer_id, username) ==
    IF customer_id \notin customers
    THEN [status |-> NotFound, error |-> "CustomerNotFound", accounts |-> accounts]
    ELSE IF AccountOf(customer_id) # {}
    THEN [status |-> BadRequest, error |-> "OneAccountPerCustomer", accounts |-> accounts]
    ELSE [status |-> Created, error |-> "",
          accounts |-> accounts \cup {[customer_id |-> customer_id, username |-> username]}]

AccountCheck(customer_id, username) ==
    IF customer_id \notin customers
    THEN [status |-> NotFound, error |-> "CustomerNotFound", accounts |-> accounts]
    ELSE IF AccountOf(customer_id) # {}
    THEN [status |-> BadRequest, error |-> "OneAccountPerCustomer", accounts |-> accounts]
    ELSE IF \E a \in accounts : a.username = username
    THEN [status |-> BadRequest, error |-> "UsernameNotUnique", accounts |-> accounts]
    ELSE [status |-> Created, error |-> "",
          accounts |-> accounts \cup {[customer_id |-> customer_id, username |-> username]}]

add_customer_account(customer_id, username) ==
    \E r \in {AccountCheck(customer_id, username)} :
    /\ accounts' = r.accounts
    /\ last' = Response("add_customer_account", r.status, r.error)
    /\ UNCHANGED <<customers, nextCustomerId, products, nextProductId, orders, order_products,
                   nextOrderId, supplied, txn>>

\* PUT /customer_accounts/<customer_id>.  The body is loaded with partial=True:
\* username ("" stands for: not in the body) and customer_id (Absent: not in
\* the body) are assigned as given; the handler itself checks neither.  The
\* flush at commit runs into the constraints the table is declared with: the
\* unique username, the primary key customer_id and its foreign key to
\* Customers; a violation raises and undoes the unit.
UpdateAccountNoConstraints(customer_id, username, new_customer_id) ==
    IF AccountOf(customer_id) = {}
    THEN [status |-> NotFound, error |-> "AccountNotFound", accounts |-> accounts]
    ELSE LET account == CHOOSE a \in AccountOf(customer_id) : TRUE
             name == IF username = "" THEN account.username ELSE username
             key == IF new_customer_id = Absent THEN customer_id ELSE new_customer_id
             others == accounts \ {account}
         IN [status |-> Ok, error |-> "",
             accounts |-> others \cup {[customer_id |-> key, username |-> name]}]

UpdateAccountResult(customer_id, username, new_customer_id) ==
    IF AccountOf(customer_id) = {}
    THEN [status |-> NotFound, error |-> "AccountNotFound", accounts |-> accounts]
    ELSE LET account == CHOOSE a \in AccountOf(customer_id) : TRUE
             name == IF username = "" THEN account.username ELSE username
             key == IF new_customer_id = Absent THEN customer_id ELSE new_customer_id
             others == accounts \ {account}
         IN IF \/ \E a \in others : a.username = name
               \/ \E a \in others : a.customer_id = key
               \/ key \notin customers
            THEN [status |-> ServerError, error |-> "Exception", accounts |-> accounts]
            ELSE [status |-> Ok, error |-> "",
                  accounts |-> others \cup {[customer_id |-> key, username |-> name]}]

update_customer_acount(customer_id, username, new_customer_id) ==
    \E r \in {UpdateAccountResult(customer_id, username, new_customer_id)} :
    /\ accounts' = r.accounts
    /\ last' = Response("update_customer_acount", r.status, r.error)
    /\ UNCHANGED <<customers, nextCustomerId, products, nextProductId, orders,
                   order_products, nextOrderId, supplied, txn>>

delete_customer_account(customer_id) ==
    /\ IF AccountOf(customer_id) = {}
       THEN /\ last' = Response("delete_customer_account", NotFound, "AccountNotFound")
            /\ UNCHANGED accounts
       ELSE /\ last' = Response("delete_customer_account", Ok, "")
            /\ accounts' = accounts \ AccountOf(customer_id)
    /\ UNCHANGED <<customers, nextCustomerId, products, nextProductId, orders, order_products,
                   nextOrderId, supplied, txn>>

\* -------------------------------------------------------------- /products
\* POST /products: the schema admits any stock >= 0.
add_product(stock) ==
    /\ nextProductId <= MaxProducts
    /\ products' = [p \in DOMAIN products \cup {nextProductId} |->
                       IF p = nextProductId THEN [stock |-> stock] ELSE products[p]]
    /\ supplied' = [p \in DOMAIN supplied \cup {nextProductId} |->
                       IF p = nextProductId THEN stock ELSE supplied[p]]
    /\ nextProductId' = nextProductId + 1
    /\ last' = Response("add_product", Created, "")
    /\ UNCHANGED <<customers, nextCustomerId, accounts, orders, order_products, nextOrderId, txn>>

\* PUT /products/<id>?restock=<text>.  restock is the text of the query
\* parameter, a sequence of characters; an empty text is falsy and takes the
\* branch of the body (update_product below).
\* str.isdigit() holds of a non-empty text whose characters all have the
\* Unicode property Digit: the decimal digits, and also characters such as
\* U+00B2 SUPERSCRIPT TWO (written "sup2" here), which int() does not accept.
DecimalDigits == {"0", "1", "2"}

OtherDigits == {"sup2"}

isdigit(text) ==
    /\ text # <<>>
    /\ \A i \in DOMAIN text : text[i] \in DecimalDigits \cup OtherDigits

DigitValue(ch) == CASE ch = "0" -> 0 [] ch = "1" -> 1 [] ch = "2" -> 2

\* int(restock) raises ValueError on a character that is no decimal digit.
\* (The handler calls int() only on a text that passed isdigit().)
IntRaises(text) == \E i \in DOMAIN text : text[i] \notin DecimalDigits

RECURSIVE int(_)
int(text) ==
    IF text = <<>> THEN 0
    ELSE 10 * int(SubSeq(text, 1, Len(text) - 1)) + DigitValue(text[Len(text)])

\* The texts of the requests: 0, 1, 2, 01, -1, 1.2 and the superscript two.
RestockTexts ==
    {<<"0">>, <<"1">>, <<"2">>, <<"0", "1">>, <<"-", "1">>, <<"1", ".", "2">>, <<"sup2">>}

RestockResult(product_id, restock) ==
    IF ~isdigit(restock)
    THEN [status |-> BadRequest, error |-> "RestockPositiveInteger", products |-> products,
          amount |-> 0]
    ELSE IF IntRaises(restock)
    THEN [status |-> ServerError, error |-> "Exception", products |-> products, amount |-> 0]
    ELSE IF int(restock) <= 0
    THEN [status |-> BadRequest, error |-> "RestockPositiveInteger", products |-> products,
          amount |-> 0]
    ELSE IF product_id \notin DOMAIN products
    THEN [status |-> NotFound, error |-> "ProductNotFound", products |-> products, amount |-> 0]
    ELSE [status |-> Ok, error |-> "",
          products |-> [products EXCEPT ![product_id].stock = @ + int(restock)],
          amount |-> int(restock)]

update_product_restock(product_id, restock) ==
    \E r \in {RestockResult(product_id, restock)} :
    /\ r.status = Ok => supplied[product_id] + r.amount <= MaxStock
    /\ products' = r.products
    /\ supplied' = IF r.status = Ok
                   THEN [supplied EXCEPT ![product_id] = @ + r.amount]
                   ELSE supplied
    /\ last' = Response("update_product_restock", r.status, r.error)
    /\ UNCHANGED <<customers, nextCustomerId, accounts, nextProductId, orders, order_products,
                   nextOrderId, txn>>

\* PUT /products/<id> with a body: the partial schema load rejects a stock
\* below 0 (validate.Range(min=0)); an accepted stock is assigned as it is.
update_product(product_id, stock) ==
    /\ IF product_id \notin DOMAIN products
       THEN /\ last' = Response("update_product", NotFound, "ProductNotFound")
            /\ UNCHANGED <<products, supplied>>
       ELSE IF stock < 0
       THEN /\ last' = Response("update_product", BadRequest, "ValidationError")
            /\ UNCHANGED <<products, supplied>>
       ELSE /\ supplied[product_id] + stock - products[product_id].stock <= MaxStock
            /\ last' = Response("update_product", Ok, "")
            /\ products' = [products EXCEPT ![product_id].stock = stock]
            /\ supplied' = [supplied EXCEPT
                               ![product_id] = @ + stock - products[product_id].stock]
    /\ UNCHANGED <<customers, nextCustomerId, accounts, nextProductId, orders, order_products,
                   nextOrderId, txn>>

\* DELETE /products/<product_id>: the handler looks for Order_Product rows of
\* the product itself and refuses to delete a product that has any.
DeleteProductNoCheck(product_id) ==
    IF product_id \notin DOMAIN products
    THEN [status |-> NotFound, error |-> "ProductNotFound", products |-> products]
    ELSE [status |-> Ok, error |-> "",
          products |-> [p \in DOMAIN products \ {product_id} |-> products[p]]]

DeleteProductResult(product_id) ==
    IF product_id \notin DOMAIN products
    THEN [status |-> NotFound, error |-> "ProductNotFound", products |-> products]
    ELSE IF LineItems(product_id) # {}
    THEN [status |-> BadRequest, error |-> "ProductHasOrders", products |-> products]
    ELSE [status |-> Ok, error |-> "",
          products |-> [p \in DOMAIN products \ {product_id} |-> products[p]]]

delete_product(product_id) ==
    \E r \in {DeleteProductResult(product_id)} :
    /\ products' = r.products
    /\ supplied' = [p \in DOMAIN r.products |-> supplied[p]]
    /\ last' = Response("delete_product", r.status, r.error)
    /\ UNCHANGED <<customers, nextCustomerId, accounts, nextProductId, orders, order_products,
                   nextOrderId, txn>>

\* ---------------------------------------------------------------- /orders
\* The state a unit of work has built when the handler returns: the response
\* and the session's view of the store.
Unit(status, error, prods, ords, rows, nextId) ==
    [status |-> status, error |-> error, products |-> prods, orders |-> ords,
     order_products |-> rows, nextOrderId |-> nextId]

\* The unit of a handler that returns before it has changed anything.
Unchanged(status, error) ==
    Unit(status, error, products, orders, order_products, nextOrderId)

\* session.rollback(): the store keeps the rows it had when the unit began.
\* (An autoincrement value that a flushed INSERT has drawn is not given back by
\* the store; order ids are never reused either way, and the model keeps the
\* counter.)
NoRollback(unit) == unit

session_rollback(unit) ==
    [unit EXCEPT !.products = products, !.orders = orders,
                 !.order_products = order_products, !.nextOrderId = nextOrderId]

\* The Order_Product rows of the OrderProduct objects appended to order.products.
Rows(order_id, items) ==
    {[order_id |-> order_id, product_id |-> items[i].product_id,
      quantity |-> items[i].quantity] : i \in DOMAIN items}

\* The loop `for product_id in set(product_ids)` of add_order and update_order.
\* visit is the order in which the set is iterated, prods the Product rows as
\* the session holds them, items the OrderProduct objects appended so far.
RECURSIVE ReserveNoCheck(_, _, _, _)
ReserveNoCheck(visit, quantities, prods, items) ==
    IF visit = <<>> THEN [error |-> "", products |-> prods, items |-> items]
    ELSE LET product_id == Head(visit) IN
         IF product_id \notin DOMAIN prods
         THEN [error |-> "ProductNotFound", products |-> prods, items |-> items]
         ELSE LET quantity == quantities[product_id] IN
              ReserveNoCheck(Tail(visit), quantities,
                      [prods EXCEPT ![product_id].stock = @ - quantity],
                      Append(items, [product_id |-> product_id, quantity |-> quantity]))

RECURSIVE ReserveNoDecrement(_, _, _, _)
ReserveNoDecrement(visit, quantities, prods, items) ==
    IF visit = <<>> THEN [error |-> "", products |-> prods, items |-> items]
    ELSE LET product_id == Head(visit) IN
         IF product_id \notin DOMAIN prods
         THEN [error |-> "ProductNotFound", products |-> prods, items |-> items]
         ELSE LET quantity == quantities[product_id] IN
              IF prods[product_id].stock < quantity
              THEN [error |-> "InsufficientStock", products |-> prods, items |-> items]
              ELSE ReserveNoDecrement(Tail(visit), quantities, prods,
                      Append(items, [product_id |-> product_id, quantity |-> quantity]))

RECURSIVE ReserveSkipMissing(_, _, _, _)
ReserveSkipMissing(visit, quantities, prods, items) ==
    IF visit = <<>> THEN [error |-> "", products |-> prods, items |-> items]
    ELSE LET product_id == Head(visit) IN
         IF product_id \notin DOMAIN prods
         THEN ReserveSkipMissing(Tail(visit), quantities, prods, items)
         ELSE LET quantity == quantities[product_id] IN
              IF prods[product_id].stock < quantity
              THEN [error |-> "InsufficientStock", products |-> prods, items |-> items]
              ELSE ReserveSkipMissing(Tail(visit), quantities,
                      [prods EXCEPT ![product_id].stock = @ - quantity],
                      Append(items, [product_id |-> product_id, quantity |-> quantity]))

RECURSIVE Reserve(_, _, _, _)
Reserve(visit, quantities, prods, items) ==
    IF visit = <<>> THEN [error |-> "", products |-> prods, items |-> items]
    ELSE LET product_id == Head(visit) IN
         IF product_id \notin DOMAIN prods
         THEN [error |-> "ProductNotFound", products |-> prods, items |-> items]
         ELSE LET quantity == quantities[product_id] IN
              IF prods[product_id].stock < quantity
              THEN [error |-> "InsufficientStock", products |-> prods, items |-> items]
              ELSE Reserve(Tail(visit), quantities,
                      [prods EXCEPT ![product_id].stock = @ - quantity],
                      Append(items, [product_id |-> product_id, quantity |-> quantity]))

\* The loop `for orderproduct in order.products: orderproduct.product.stock +=
\* orderproduct.quantity` of update_order and delete_order.
ReleaseNothing(rows, prods) == prods

RECURSIVE Release(_, _)
Release(rows, prods) ==
    IF rows = {} THEN prods
    ELSE LET r == CHOOSE x \in rows : TRUE
         IN Release(rows \ {r}, [prods EXCEPT ![r.product_id].stock = @ + r.quantity])

StatusOf(error) == IF error = "ProductNotFound" THEN NotFound ELSE BadRequest

WithOrder(ords, order_id, order) ==
    [o \in DOMAIN ords \cup {order_id} |-> IF o = order_id THEN order ELSE ords[o]]

\* POST /orders.  has_product_ids tells whether the body carries product_ids
\* (the schema does not require it, and order_data.pop raises KeyError without).
\* visit is the iteration order of set(product_ids).
AddOrderResult(customer_id, has_product_ids, product_ids, visit) ==
    IF customer_id \notin customers
    THEN Unchanged(NotFound, "CustomerNotFound")
    ELSE IF ~has_product_ids
    THEN Unchanged(ServerError, "Exception")
    ELSE LET r == Reserve(visit, Counter(product_ids), products, <<>>)
             unit == Unit(IF r.error = "" THEN Created ELSE StatusOf(r.error), r.error,
                          r.products,
                          WithOrder(orders, nextOrderId, [customer_id |-> customer_id]),
                          order_products \cup Rows(nextOrderId, r.items),
                          nextOrderId + 1)
         IN IF r.error = "" THEN unit ELSE session_rollback(unit)

add_order(customer_id, has_product_ids, product_ids, visit) ==
    \E u \in {AddOrderResult(customer_id, has_product_ids, product_ids, visit)} :
    /\ u.nextOrderId <= MaxOrders + 1
    /\ products' = u.products
    /\ orders' = u.orders
    /\ order_products' = u.order_products
    /\ nextOrderId' = u.nextOrderId
    /\ last' = Reply("add_order", u.status, u.error, has_product_ids)
    /\ UNCHANGED <<customers, nextCustomerId, accounts, nextProductId, supplied, txn>>

\* PUT /orders/<order_id>.  The body is loaded with partial=True: product_ids
\* and customer_id are both optional (customer_id = Absent: not in the body).
\* With product_ids, every old line item is released and deleted, then the new
\* ones are reserved against the released stock.  The assignment of customer_id
\* is flushed at commit, where the foreign key Orders.customer_id -> Customers
\* makes the store raise for an unknown id, which undoes the unit.
UpdateOrderAlwaysRecompute(order_id, has_product_ids, product_ids, customer_id, visit) ==
    IF order_id \notin DOMAIN orders
    THEN Unchanged(NotFound, "OrderNotFound")
    ELSE LET old == ItemsOf(order_id)
             r == Reserve(visit, Counter(product_ids), Release(old, products), <<>>)
             rows == (order_products \ old) \cup Rows(order_id, r.items)
             owner == IF customer_id = Absent THEN orders[order_id].customer_id
                      ELSE customer_id
         IN IF r.error # ""
            THEN session_rollback(Unit(StatusOf(r.error), r.error, r.products, orders,
                                       rows, nextOrderId))
            ELSE IF owner \notin customers
            THEN Unchanged(ServerError, "Exception")
            ELSE Unit(Ok, "", r.products,
                      [orders EXCEPT ![order_id].customer_id = owner], rows, nextOrderId)

UpdateOrderReserveFirst(order_id, has_product_ids, product_ids, customer_id, visit) ==
    IF order_id \notin DOMAIN orders
    THEN Unchanged(NotFound, "OrderNotFound")
    ELSE LET old == ItemsOf(order_id)
             r == IF has_product_ids
                  THEN Reserve(visit, Counter(product_ids), products, <<>>)
                  ELSE [error |-> "", products |-> products, items |-> <<>>]
             rows == IF has_product_ids
                     THEN (order_products \ old) \cup Rows(order_id, r.items)
                     ELSE order_products
             owner == IF customer_id = Absent THEN orders[order_id].customer_id
                      ELSE customer_id
         IN IF r.error # ""
            THEN session_rollback(Unit(StatusOf(r.error), r.error, r.products, orders,
                                       rows, nextOrderId))
            ELSE IF owner \notin customers
            THEN Unchanged(ServerError, "Exception")
            ELSE Unit(Ok, "", IF has_product_ids THEN Release(old, r.products) ELSE r.products,
                      [orders EXCEPT ![order_id].customer_id = owner], rows, nextOrderId)

UpdateOrderResult(order_id, has_product_ids, product_ids, customer_id, visit) ==
    IF order_id \notin DOMAIN orders
    THEN Unchanged(NotFound, "OrderNotFound")
    ELSE LET old == ItemsOf(order_id)
             r == IF has_product_ids
                  THEN Reserve(visit, Counter(product_ids), Release(old, products), <<>>)
                  ELSE [error |-> "", products |-> products, items |-> <<>>]
             rows == IF has_product_ids
                     THEN (order_products \ old) \cup Rows(order_id, r.items)
                     ELSE order_products
             owner == IF customer_id = Absent THEN orders[order_id].customer_id
                      ELSE customer_id
         IN IF r.error # ""
            THEN session_rollback(Unit(StatusOf(r.error), r.error, r.products, orders,
                                       rows, nextOrderId))
            ELSE IF owner \notin customers
            THEN Unchanged(ServerError, "Exception")
            ELSE Unit(Ok, "", r.products,
                      [orders EXCEPT ![order_id].customer_id = owner], rows, nextOrderId)

update_order(order_id, has_product_ids, product_ids, customer_id, visit) ==
    \E u \in {UpdateOrderResult(order_id, has_product_ids, product_ids, customer_id, visit)} :
    /\ products' = u.products
    /\ orders' = u.orders
    /\ order_products' = u.order_products
    /\ last' = Reply("update_order", u.status, u.error, has_product_ids)
    /\ UNCHANGED <<customers, nextCustomerId, accounts, nextProductId, nextOrderId,
                   supplied, txn>>

\* DELETE /orders/<order_id>: the line items are released, and
\* session.delete(order) cascades to them (cascade="all").
DeleteOrderNoCascade(order_id) ==
    IF order_id \notin DOMAIN orders
    THEN Unchanged(NotFound, "OrderNotFound")
    ELSE Unit(Ok, "", Release(ItemsOf(order_id), products),
              [o \in DOMAIN orders \ {order_id} |-> orders[o]],
              order_products, nextOrderId)

DeleteOrderNoRelease(order_id) ==
    IF order_id \notin DOMAIN orders
    THEN Unchanged(NotFound, "OrderNotFound")
    ELSE Unit(Ok, "", products,
              [o \in DOMAIN orders \ {order_id} |-> orders[o]],
              order_products \ ItemsOf(order_id), nextOrderId)

DeleteOrderResult(order_id) ==
    IF order_id \notin DOMAIN orders
    THEN Unchanged(NotFound, "OrderNotFound")
    ELSE Unit(Ok, "", Release(ItemsOf(order_id), products),
              [o \in DOMAIN orders \ {order_id} |-> orders[o]],
              order_products \ ItemsOf(order_id), nextOrderId)

delete_order(order_id) ==
    \E u \in {DeleteOrderResult(order_id)} :
    /\ products' = u.products
    /\ orders' = u.orders
    /\ order_products' = u.order_products
    /\ last' = Response("delete_order", u.status, u.error)
    /\ UNCHANGED <<customers, nextCustomerId, accounts, nextProductId, nextOrderId,
                   supplied, txn>>

\* ------------------------------------------------------------ the program
CustomerIds == 1..MaxCustomers
ProductIds == 1..MaxProducts
OrderIds == 1..MaxOrders
ProductIdLists == SeqsUpTo(ProductIds, MaxRefs)

OrderRequest(customer_id, has_product_ids, product_ids) ==
    \E visit \in Orderings(Range(product_ids)) :
        add_order(customer_id, has_product_ids, product_ids, visit)

OrderUpdate(order_id, has_product_ids, product_ids, customer_id) ==
    \E visit \in Orderings(Range(product_ids)) :
        update_order(order_id, has_product_ids, product_ids, customer_id, visit)

\* The handlers of /customers and /customer_accounts.
AccountsNext ==
    \/ add_customer
    \/ \E c \in CustomerIds : delete_customer(c)
    \/ \E c \in CustomerIds, u \in Usernames : add_customer_account(c, u)
    \/ \E c \in CustomerIds, u \in Usernames \cup {""}, n \in {Absent} \cup CustomerIds :
           update_customer_acount(c, u, n)
    \/ \E c \in CustomerIds : delete_customer_account(c)

\* The handlers of /products.
ProductsNext ==
    \/ \E s \in 0..MaxStock : add_product(s)
    \/ \E p \in ProductIds : delete_product(p)

StockEditNext ==
    \/ \E p \in ProductIds, text \in RestockTexts : update_product_restock(p, text)
    \/ \E p \in ProductIds, s \in -1..MaxStock : update_product(p, s)

\* The handlers of /orders.
OrdersNext ==
    \/ \E c \in CustomerIds, ids \in ProductIdLists : OrderRequest(c, TRUE, ids)
    \/ \E c \in CustomerIds : OrderRequest(c, FALSE, <<>>)
    \/ \E o \in OrderIds, ids \in ProductIdLists, c \in {Absent} \cup CustomerIds :
           OrderUpdate(o, TRUE, ids, c)
    \/ \E o \in OrderIds, c \in {Absent} \cup CustomerIds : OrderUpdate(o, FALSE, <<>>, c)
    \/ \E o \in OrderIds : delete_order(o)

Next == AccountsNext \/ ProductsNext \/ StockEditNext \/ OrdersNext

Spec == Init /\ [][Next]_vars

\* Orders and inventory: every handler that reads or writes Products, Orders
\* or Order_Product, with the customers the orders belong to.
OrdersSpecNext ==
    \/ add_customer
    \/ \E c \in CustomerIds : delete_customer(c)
    \/ ProductsNext
    \/ StockEditNext
    \/ OrdersNext

SpecOrders == Init /\ [][OrdersSpecNext]_vars

\* The same without restock and without a direct edit of a product's stock.
NoEditNext ==
    \/ add_customer
    \/ \E c \in CustomerIds : delete_customer(c)
    \/ ProductsNext
    \/ OrdersNext

SpecNoEdit == Init /\ [][NoEditNext]_vars

\* Orders and restock: no direct edit of a stock, no deletion of a customer or
\* of a product.
RestockNext ==
    \/ add_customer
    \/ \E s \in 0..MaxStock : add_product(s)
    \/ \E p \in ProductIds, text \in RestockTexts : update_product_restock(p, text)
    \/ OrdersNext

SpecRestock == Init /\ [][RestockNext]_vars

\* Customers and their accounts alone.
SpecAccounts == Init /\ [][AccountsNext]_vars

\* ------------------------------------------- concurrent units of work
\* add_order run by several requests at once, one statement of the store at a
\* step.  The handler sets no isolation level and takes no row lock
\* (session.get is a plain SELECT), so under the store's default (MySQL's
\* REPEATABLE READ) every SELECT of a unit reads the snapshot taken at the
\* unit's first read, and the flush at commit writes the stock the session
\* computed: UPDATE Products SET stock = <value>.
Txns == 1..MaxTxns

Running == {t \in Txns : txn[t].pc = "loop"}

\* session.get(Customer, customer_id), the first read of the unit; then
\* session.add(order) and quantities = Counter(product_ids).
tx_begin(t, customer_id, product_ids, visit) ==
    /\ txn[t].pc = "idle"
    /\ txn' = [txn EXCEPT ![t] =
                  IF customer_id \notin customers
                  THEN [pc |-> "done", status |-> NotFound, error |-> "CustomerNotFound"]
                  ELSE [pc |-> "loop", customer_id |-> customer_id,
                        quantities |-> Counter(product_ids), visit |-> visit,
                        snapshot |-> products, session |-> products, items |-> <<>>,
                        overlaps |-> Running]]
    /\ UNCHANGED <<customers, nextCustomerId, accounts, products, nextProductId,
                   orders, order_products, nextOrderId, supplied, last>>

\* One iteration of the loop: session.get(Product, product_id), the two checks,
\* and the decrement of the session's Product object.
tx_reserve(t) ==
    /\ txn[t].pc = "loop"
    /\ txn[t].visit # <<>>
    /\ \E r \in {Reserve(<<Head(txn[t].visit)>>, txn[t].quantities, txn[t].session,
                         txn[t].items)} :
          txn' = [txn EXCEPT ![t] =
                     IF r.error # ""
                     THEN [pc |-> "done", status |-> StatusOf(r.error), error |-> r.error]
                     ELSE [@ EXCEPT !.visit = Tail(@), !.session = r.products,
                                    !.items = r.items]]
    /\ UNCHANGED <<customers, nextCustomerId, accounts, products, nextProductId,
                   orders, order_products, nextOrderId, supplied, last>>

\* The end of the `with` block: the flush inserts the order and its line
\* items and writes the stock of every product the unit changed, then COMMIT.
tx_commit(t) ==
    /\ txn[t].pc = "loop"
    /\ txn[t].visit = <<>>
    /\ nextOrderId <= MaxOrders
    /\ products' = [p \in DOMAIN products |->
                       IF p \in DOMAIN txn[t].quantities THEN txn[t].session[p]
                       ELSE products[p]]
    /\ orders' = WithOrder(orders, nextOrderId, [customer_id |-> txn[t].customer_id])
    /\ order_products' = order_products \cup Rows(nextOrderId, txn[t].items)
    /\ nextOrderId' = nextOrderId + 1
    /\ last' = Reply("add_order", Created, "", TRUE)
    /\ txn' = [txn EXCEPT ![t] =
                  [pc |-> "done", status |-> Created, error |-> "",
                   quantities |-> txn[t].quantities, snapshot |-> txn[t].snapshot,
                   overlaps |-> txn[t].overlaps]]
    /\ UNCHANGED <<customers, nextCustomerId, accounts, nextProductId, supplied>>

ConcNext ==
    \/ add_customer
    \/ \E s \in 0..MaxStock : add_product(s)
    \/ \E t \in Txns, c \in CustomerIds, ids \in ProductIdLists :
          \E visit \in Orderings(Range(ids)) : tx_begin(t, c, ids, visit)
    \/ \E t \in Txns : tx_reserve(t)
    \/ \E t \in Txns : tx_commit(t)

SpecConc == Init /\ [][ConcNext]_vars

\* ------------------------------------------------------------- properties
\* Number of occurrences of product p in a list of product ids.
Occurrences(p, product_ids) ==
    Cardinality({i \in DOMAIN product_ids : product_ids[i] = p})

\* Quantity of product p that order o holds (0 without a line item).
OldQty(o, p) == SumQuantity({r \in ItemsOf(o) : r.product_id = p})

\* The line items that a list of product ids asks for.
Allocation(o, product_ids) ==
    {[order_id |-> o, product_id |-> p, quantity |-> Occurrences(p, product_ids)] :
        p \in Range(product_ids)}

Missing(product_ids) == Range(product_ids) \ DOMAIN products

\* The referenced products whose stock, once `back` has been given back, is
\* below the requested quantity.
Short(product_ids, back) ==
    {p \in Range(product_ids) \cap DOMAIN products :
        products[p].stock + back[p] < Occurrences(p, product_ids)}

Nothing == [p \in ProductIds |-> 0]

Held(o) == [p \in ProductIds |-> OldQty(o, p)]

\* C1: in every reachable state every product's stock is an integer >= 0
\* (create-order and replace-order-products decrement by q only after the
\* check stock >= q made in the same unit of work).
C1_StockNonNegative ==
    \A p \in DOMAIN products : products[p].stock \in Nat

C1_Witness ==
    /\ last.op \in {"add_order", "update_order"}
    /\ last.status \in {Ok, Created}
    /\ last.has_product_ids
    /\ \E p \in DOMAIN products : products[p].stock = 0 /\ Allocated(p) = MaxRefs

\* C2: without restock and direct stock edits, the quantities of a product's
\* line items over all existing orders sum to at most its original stock.
C2_AllocatedWithinOriginalStock ==
    \A p \in DOMAIN products : Allocated(p) <= supplied[p]

C2_Witness ==
    /\ last.op = "add_order"
    /\ last.error = "InsufficientStock"
    /\ \E p \in DOMAIN products :
          /\ Allocated(p) = supplied[p]
          /\ Cardinality(LineItems(p)) = 2

\* C3 as claimed: create-order (existing customer) with a product short of
\* stock fails with the insufficient-stock error and changes no stock.
C3_Original ==
    [][\A c \in CustomerIds, ids \in ProductIdLists :
          (/\ last'.op = "add_order"
           /\ c \in customers /\ Short(ids, Nothing) # {}
           /\ OrderRequest(c, TRUE, ids))
          => /\ last'.error = "InsufficientStock"
             /\ products' = products]_vars

\* C3: create-order with a product short of stock fails and changes the stock
\* of no product; the error is insufficient-stock unless the customer or a
\* referenced product does not exist, which is then the reported not-found.
C3_InsufficientStockRollsBack ==
    [][\A c \in CustomerIds, ids \in ProductIdLists :
          (/\ last'.op = "add_order"
           /\ Short(ids, Nothing) # {}
           /\ OrderRequest(c, TRUE, ids))
          => /\ products' = products
             /\ last'.status \in {BadRequest, NotFound}
             /\ c \notin customers => last'.error = "CustomerNotFound"
             /\ c \in customers /\ Missing(ids) = {} => last'.error = "InsufficientStock"
             /\ c \in customers => last'.error \in {"InsufficientStock", "ProductNotFound"}]_vars

C3_Witness ==
    /\ last.op = "add_order"
    /\ last.error = "InsufficientStock"
    /\ \E p, q \in DOMAIN products : products[p].stock = 0 /\ products[q].stock > 0

\* C4 as claimed: create-order (existing customer) with a product id that does
\* not exist fails with the product-not-found error and changes no stock.
C4_Original ==
    [][\A c \in CustomerIds, ids \in ProductIdLists :
          (/\ last'.op = "add_order"
           /\ c \in customers /\ Missing(ids) # {}
           /\ OrderRequest(c, TRUE, ids))
          => /\ last'.error = "ProductNotFound"
             /\ products' = products]_vars

\* C4: create-order with a product id that does not exist fails and changes
\* no stock, wherever the missing id is visited; the error is product-not-found
\* unless the customer does not exist or a product visited before the missing
\* one is short of stock, which is then the reported error.
C4_MissingProductRollsBack ==
    [][\A c \in CustomerIds, ids \in ProductIdLists :
          (/\ last'.op = "add_order"
           /\ Missing(ids) # {}
           /\ OrderRequest(c, TRUE, ids))
          => /\ products' = products
             /\ last'.status \in {BadRequest, NotFound}
             /\ c \notin customers => last'.error = "CustomerNotFound"
             /\ c \in customers /\ Short(ids, Nothing) = {} => last'.error = "ProductNotFound"
             /\ c \in customers => last'.error \in {"InsufficientStock", "ProductNotFound"}]_vars

C4_Witness ==
    /\ last.op = "add_order"
    /\ last.error = "ProductNotFound"
    /\ \E p \in DOMAIN products : products[p].stock > 0

Owners == {Absent} \cup CustomerIds

\* The store and the response that update_order leaves for a request with
\* product_ids, for every order in which set(product_ids) can be visited.
ReplaceUnits(o, ids, c) ==
    {UpdateOrderResult(o, TRUE, ids, c, visit) : visit \in Orderings(Range(ids))}

\* C5: a replace-order-products on an existing order that fails (a new product
\* id does not exist, or a new product is short of stock after the release)
\* undoes the whole unit: every stock and every line item is as before the
\* call.  Stated of every such request in every reachable state.
C5_FailedReplaceRollsBack ==
    \A o \in DOMAIN orders, ids \in ProductIdLists, c \in Owners :
        (Missing(ids) # {} \/ Short(ids, Held(o)) # {})
        => \A u \in ReplaceUnits(o, ids, c) :
              /\ u.status \in {BadRequest, NotFound}
              /\ u.error \in {"ProductNotFound", "InsufficientStock"}
              /\ Missing(ids) = {} => u.error = "InsufficientStock"
              /\ Short(ids, Held(o)) = {} => u.error = "ProductNotFound"
              /\ u.products = products
              /\ u.order_products = order_products
              /\ u.orders = orders

C5_Witness ==
    /\ last.op = "update_order"
    /\ last.has_product_ids
    /\ last.error = "InsufficientStock"
    /\ \E o \in DOMAIN orders : Cardinality(ItemsOf(o)) = 2
    /\ \E p \in DOMAIN products : products[p].stock > 0

\* C6: a replace-order-products that succeeds changes the stock of every
\* product P by old_qty(P) - new_qty(P), and leaves the order with exactly
\* the new allocations as line items (none of the old ones), the other orders'
\* line items untouched.  Stated of every such request in every reachable
\* state.
C6_ReplaceNetStock ==
    \A o \in DOMAIN orders, ids \in ProductIdLists, c \in Owners :
        \A u \in ReplaceUnits(o, ids, c) :
            u.status = Ok
            => /\ DOMAIN u.products = DOMAIN products
               /\ \A p \in DOMAIN products :
                     u.products[p].stock - products[p].stock
                         = OldQty(o, p) - Occurrences(p, ids)
               /\ {r \in u.order_products : r.order_id = o} = Allocation(o, ids)
               /\ {r \in u.order_products : r.order_id # o}
                      = {r \in order_products : r.order_id # o}

C6_Witness ==
    /\ last.op = "update_order"
    /\ last.has_product_ids
    /\ last.status = Ok
    /\ \E o \in DOMAIN orders :
          /\ \E r \in ItemsOf(o) : r.quantity = MaxRefs
          /\ \E p \in DOMAIN products : OldQty(o, p) = 0 /\ products[p].stock = MaxStock

\* C7: deleting an existing order adds each line item's quantity to its
\* product's stock once and removes the order with its line items; deleting
\* an order id that does not exist fails with not-found and changes no stock;
\* an order id, once deleted, never exists again.
C7_DeleteOrderReleasesOnce ==
    [][/\ \A o \in OrderIds :
             (last'.op = "delete_order" /\ delete_order(o))
             => IF o \in DOMAIN orders
                THEN /\ last'.status = Ok
                     /\ DOMAIN orders' = DOMAIN orders \ {o}
                     /\ order_products' = {r \in order_products : r.order_id # o}
                     /\ DOMAIN products' = DOMAIN products
                     /\ \A p \in DOMAIN products :
                           products'[p].stock = products[p].stock + OldQty(o, p)
                ELSE /\ last'.status = NotFound
                     /\ products' = products
                     /\ orders' = orders
                     /\ order_products' = order_products
       /\ \A o \in 1..(nextOrderId - 1) :
             o \notin DOMAIN orders => o \notin DOMAIN orders']_vars

C7_Witness ==
    /\ last.op = "delete_order"
    /\ last.status = NotFound
    /\ \E o \in 1..(nextOrderId - 1) : o \notin DOMAIN orders
    /\ \E p \in DOMAIN products : products[p].stock = supplied[p] /\ supplied[p] > 0

Reorderings(ids) ==
    {s \in [DOMAIN ids -> Range(ids)] :
        \A p \in Range(ids) : Occurrences(p, s) = Occurrences(p, ids)}

UniqueLineItems ==
    \A r1, r2 \in order_products :
        (r1.order_id = r2.order_id /\ r1.product_id = r2.product_id) => r1 = r2

\* C9: the allocation of a list of product ids maps each distinct id to its
\* number of occurrences and is the same for every reordering of the list; a
\* create-order or replace-order-products that succeeds stores exactly one
\* line item per distinct id with that quantity, and no order ever holds two
\* line items of one product.

C9_AllocationIsPerIdCount ==
    /\ \A ids \in ProductIdLists :
          /\ Counter(ids) = [p \in Range(ids) |-> Occurrences(p, ids)]
          /\ \A s \in Reorderings(ids) : Counter(s) = Counter(ids)
          /\ \A c \in customers, visit \in Orderings(Range(ids)) :
                LET u == AddOrderResult(c, TRUE, ids, visit)
                IN u.status = Created
                   => {r \in u.order_products : r.order_id = nextOrderId}
                          = Allocation(nextOrderId, ids)
          /\ \A o \in DOMAIN orders :
                \A u \in ReplaceUnits(o, ids, Absent) :
                    u.status = Ok
                    => {r \in u.order_products : r.order_id = o} = Allocation(o, ids)
    /\ UniqueLineItems

C9_Witness ==
    /\ last.op \in {"add_order", "update_order"}
    /\ last.has_product_ids
    /\ last.status \in {Ok, Created}
    /\ \E r \in order_products : r.quantity = MaxRefs

\* C10: create-account fails with not-found when the customer does not exist;
\* for an existing customer it fails with a conflict error (HTTP 400 in the
\* code) when the customer already has an account and when any account, of
\* any customer, has the same username; a failed create-account adds no
\* account.
C10_AccountConflicts ==
    [][\A c \in CustomerIds, u \in Usernames :
          (last'.op = "add_customer_account" /\ add_customer_account(c, u))
          => LET taken == \E a \in accounts : a.username = u
                 has == \E a \in accounts : a.customer_id = c
             IN /\ c \notin customers
                   => /\ last'.status = NotFound
                      /\ last'.error = "CustomerNotFound"
                      /\ accounts' = accounts
                /\ (c \in customers /\ has)
                   => /\ last'.status = BadRequest
                      /\ last'.error = "OneAccountPerCustomer"
                      /\ accounts' = accounts
                /\ (c \in customers /\ ~has /\ taken)
                   => /\ last'.status = BadRequest
                      /\ last'.error = "UsernameNotUnique"
                      /\ accounts' = accounts
                /\ (c \in customers /\ ~has /\ ~taken)
                   => /\ last'.status = Created
                      /\ accounts' = accounts \cup {[customer_id |-> c, username |-> u]}]_vars

C10_Witness ==
    /\ last.op = "add_customer_account"
    /\ last.error = "UsernameNotUnique"
    /\ Cardinality(customers) = 2
    /\ Cardinality(accounts) = 1

Committed(t) == txn[t].pc = "done" /\ txn[t].status = Created

\* C8: two create-order units that reference the same product and run
\* concurrently never both pass the check against the same stale stock: when
\* both have committed, the stock is the stock before either began less both
\* quantities, and the two quantities together did not exceed that stock.
C8_NoStaleSufficiencyCheck ==
    \A t1, t2 \in Txns :
        (/\ t1 # t2
         /\ Committed(t1) /\ Committed(t2)
         /\ t1 \in txn[t2].overlaps)
        => \A p \in DOMAIN txn[t1].quantities \cap DOMAIN txn[t2].quantities :
              LET before == txn[t1].snapshot[p].stock
                  q1 == txn[t1].quantities[p]
                  q2 == txn[t2].quantities[p]
              IN /\ q1 + q2 <= before
                 /\ products[p].stock = before - q1 - q2

\* C11: in every reachable state, a delete-product request for an existing
\* product that some line item of some order refers to is refused (HTTP 400,
\* "Cannot delete product with associated orders") and leaves every product in
\* place; for an existing product without a line item it succeeds, the product
\* is gone and the other products are as they were.
C11_DeleteProductRefusedWhenReferenced ==
    \A p \in DOMAIN products :
        \E r \in {DeleteProductResult(p)} :
            IF LineItems(p) # {}
            THEN /\ r.status = BadRequest
                 /\ r.error = "ProductHasOrders"
                 /\ r.products = products
            ELSE /\ r.status = Ok
                 /\ p \notin DOMAIN r.products
                 /\ DOMAIN r.products = DOMAIN products \ {p}
                 /\ \A q \in DOMAIN r.products : r.products[q] = products[q]

C11_Witness ==
    /\ last.op = "delete_product"
    /\ last.error = "ProductHasOrders"
    /\ \E p \in DOMAIN products : LineItems(p) # {}
    /\ Cardinality(DOMAIN products) = 2

\* The store and the response that add_order leaves, for every order in which
\* set(product_ids) can be visited.
CreateUnits(c, ids) ==
    {AddOrderResult(c, TRUE, ids, visit) : visit \in Orderings(Range(ids))}

\* C12: in every reachable state, an order operation that refers to a customer
\* id or a product id that does not exist ends in a reported error and stores
\* nothing, never in a crash: create-order with an unknown customer id answers
\* not-found; create-order and replace-order-products with an unknown product
\* id answer not-found (or the error of a product visited before it); and
\* update-order-fields that assigns an unknown customer id answers not-found
\* and leaves the order with its owner.
C12_DanglingReferenceReported ==
    /\ \A c \in CustomerIds \ customers, ids \in ProductIdLists :
          \A u \in CreateUnits(c, ids) :
              u.status = NotFound /\ u.orders = orders /\ u.order_products = order_products
    /\ \A c \in customers, ids \in ProductIdLists :
          Missing(ids) # {}
          => \A u \in CreateUnits(c, ids) :
                /\ u.status \in {NotFound, BadRequest}
                /\ Short(ids, Nothing) = {} => u.status = NotFound
                /\ u.orders = orders /\ u.order_products = order_products
    /\ \A o \in DOMAIN orders, ids \in ProductIdLists :
          Missing(ids) # {}
          => \A u \in ReplaceUnits(o, ids, Absent) :
                /\ u.status \in {NotFound, BadRequest}
                /\ Short(ids, Held(o)) = {} => u.status = NotFound
                /\ u.orders = orders /\ u.order_products = order_products
    /\ \A o \in DOMAIN orders, c \in CustomerIds \ customers :
          \E u \in {UpdateOrderResult(o, FALSE, <<>>, c, <<>>)} :
              /\ u.status = NotFound
              /\ u.orders = orders

\* C13: in every reachable state each customer has at most one account and no
\* two accounts have the same username, whatever account creations, updates
\* (of the username, of the customer id, or of both) and deletions came before.
C13_OneAccountUniqueUsername ==
    /\ \A a, b \in accounts : a.customer_id = b.customer_id => a = b
    /\ \A a, b \in accounts : a.username = b.username => a = b

\* An update that would have broken either invariant, and was refused, with
\* two accounts in the store.
C13_Witness ==
    /\ last.op = "update_customer_acount"
    /\ last.status = ServerError
    /\ Cardinality(accounts) = 2

\* C14: replace-order-products gives the order's current quantities back to
\* stock before it checks the new ones, so product P is checked against
\* stock(P) + old_qty(P): in every reachable state, a replacement on an
\* existing order whose products all exist and whose new quantity of every P
\* is at most stock(P) + old_qty(P) succeeds, also when the new quantity of
\* some P is above stock(P), and leaves stock(P) + old_qty(P) - new_qty(P).
\* (The owner is left alone or set to an existing customer.)
C14_ReleaseBeforeReserve ==
    \A o \in DOMAIN orders, ids \in ProductIdLists, c \in {Absent} \cup customers :
        (Missing(ids) = {} /\ Short(ids, Held(o)) = {})
        => \A u \in ReplaceUnits(o, ids, c) :
              /\ u.status = Ok
              /\ u.error = ""
              /\ \A p \in DOMAIN products :
                    u.products[p].stock
                        = products[p].stock + OldQty(o, p) - Occurrences(p, ids)

\* A replacement has succeeded, and an order holds MaxRefs units of a product
\* whose stock is 0: asking for the same units again is above the stock.
C14_Witness ==
    /\ last.op = "update_order"
    /\ last.has_product_ids
    /\ last.status = Ok
    /\ \E o \in DOMAIN orders, p \in DOMAIN products :
          /\ products[p].stock = 0
          /\ OldQty(o, p) = MaxRefs
          /\ Short(<<p, p>>, Nothing) = {p}
          /\ Short(<<p, p>>, Held(o)) = {}

\* C15: an order update whose body carries no product_ids (only the date
\* and/or the customer id) changes the stock of no product and leaves every
\* line item with its quantity, whether it succeeds or not; a successful one
\* changes nothing but the order's owner.
C15_FieldUpdateKeepsLineItems ==
    [][(last'.op = "update_order" /\ ~last'.has_product_ids)
       => /\ products' = products
          /\ order_products' = order_products
          /\ DOMAIN orders' = DOMAIN orders]_vars

C15_Witness ==
    /\ last.op = "update_order"
    /\ ~last.has_product_ids
    /\ last.status = Ok
    /\ \E o \in DOMAIN orders :
          /\ orders[o].customer_id = 2
          /\ Cardinality(ItemsOf(o)) = 2
    /\ \E p \in DOMAIN products : products[p].stock = 0

\* C16: a create-order that fails, for whatever reason (customer not found,
\* product not found, insufficient stock, or an exception), persists nothing:
\* the orders, the line items and the stocks after the call are those before
\* it, although the order was added to the session before the products were
\* checked.
C16_FailedCreatePersistsNothing ==
    [][(last'.op = "add_order" /\ last'.status # Created)
       => /\ orders' = orders
          /\ order_products' = order_products
          /\ products' = products]_vars

C16_Witness ==
    /\ last.op = "add_order"
    /\ last.error = "ProductNotFound"
    /\ Cardinality(DOMAIN orders) = 1
    /\ Cardinality(order_products) = 1
    /\ nextOrderId = 2

\* C17: deleting a customer cascades to its orders: delete-customer on an
\* existing customer that owns orders succeeds, and afterwards the customer
\* and every order it owned are gone.
C17_DeleteCustomerCascades ==
    [][\A c \in customers :
          (/\ last'.op = "delete_customer"
           /\ OrdersOf(c) # {}
           /\ delete_customer(c))
          => /\ last'.status = Ok
             /\ c \notin customers'
             /\ \A o \in DOMAIN orders' : orders'[o].customer_id # c]_vars

\* The texts that write a positive integer, and the integer they write.
PositiveIntegers == {<<"1">>, <<"2">>, <<"0", "1">>}

Amount(text) == IF text = <<"2">> THEN 2 ELSE 1

\* C18: a restock with a positive integer amount on an existing product
\* succeeds and adds exactly the amount to that product's stock, changing
\* nothing else; an amount that is zero, negative or not an integer is
\* rejected with a validation error (HTTP 400), and a restock of a product
\* that does not exist fails with not-found, both without changing any stock.
C18_RestockValidated ==
    [][\A p \in ProductIds, text \in RestockTexts :
          (last'.op = "update_product_restock" /\ update_product_restock(p, text))
          => /\ orders' = orders /\ order_products' = order_products
             /\ IF text \notin PositiveIntegers
                THEN last'.status = BadRequest /\ products' = products
                ELSE IF p \notin DOMAIN products
                THEN last'.status = NotFound /\ products' = products
                ELSE /\ last'.status = Ok
                     /\ products' = [products EXCEPT ![p].stock = @ + Amount(text)]]_vars

\* C19: stock is conserved.  After any sequence of create-order,
\* replace-order-products, delete-order and restock, one unit of work at a
\* time, the stock of every product plus the quantities of its line items over
\* all existing orders equals the stock it was created with plus the amounts
\* of its successful restocks.
C19_StockConserved ==
    \A p \in DOMAIN products : products[p].stock + Allocated(p) = supplied[p]

C19_Witness ==
    /\ last.op = "update_product_restock"
    /\ last.status = Ok
    /\ \E o \in 1..(nextOrderId - 1) : o \notin DOMAIN orders
    /\ \E p \in DOMAIN products :
          /\ Allocated(p) = 1
          /\ products[p].stock = 1
          /\ supplied[p] = MaxStock

\* C20: in every reachable state every line item refers to an existing order
\* and to an existing product, and its quantity is an integer >= 1: no line
\* item outlives its order, and none is stored with quantity 0.
C20_LineItemsWellFormed ==
    \A r \in order_products :
        /\ r.order_id \in DOMAIN orders
        /\ r.product_id \in DOMAIN products
        /\ r.quantity \in Nat \ {0}

C20_Witness ==
    /\ last.op = "delete_order"
    /\ last.status = Ok
    /\ Cardinality(DOMAIN orders) = 1
    /\ Cardinality(order_products) = 2
    /\ \E o \in 1..(nextOrderId - 1) : o \notin DOMAIN orders
    /\ \E p \in DOMAIN products : products[p].stock > 0
====
